---- MODULE Spec2Model ----
(***************************************************************************)
(* StudyBuddy: the quiz overlay's topic-mastery bookkeeping                *)
(* (components/QuizOverlay.tsx), the quiz history view                     *)
(* (components/QuizHistoryModal.tsx) and the three localStorage values     *)
(* they share.                                                             *)
(*                                                                         *)
(* JavaScript runs one handler at a time, so a handler is interleaved with *)
(* nothing but a loss of the page (tab closed, reload, process killed) and *)
(* a storage write that throws.  handleSubmit is therefore split at the    *)
(* places where that can be observed: each iteration of the forEach and    *)
(* each localStorage.setItem.  pc names the source line about to run.      *)
(***************************************************************************)
EXTENDS Integers, Sequences, FiniteSets

\* ------------------------------------------------------------------ bounds
MaxAsked == 2          \* questions generated in one run of the model, over all quizzes
MaxSubmits == 2        \* runs of handleSubmit in one run of the model
MaxActs == 2           \* clicks that change the chat, the sessions or the settings,
                       \* and on the Summarize button, in one run of the model

\* Topic labels the quiz service returns for questions: an ordinary one, and
\* one that is also the name of a member every plain object inherits.
Topics == {"Algebra", "constructor"}
\* Members of Object.prototype among the topic labels.
ObjectPrototype == {"constructor"}
\* Option indexes of a question; correctAnswerIndex is one of them.
Options == {0, 1}
CorrectIndexes == {1}
COMMON_SUBJECTS == {"General / Any", "Physics"}
FocusTopics == {"", " ", "Limits"}
Titles == {"Quiz"}

\* ------------------------------------------------------- JavaScript values
\* A value of the mastery object: a number, a string (the source text of an
\* inherited function followed by n characters "1"), NaN, null, undefined,
\* or an inherited function object.
Num(n) == [kind |-> "number", n |-> n]
Str(n) == [kind |-> "string", n |-> n]
NaN == [kind |-> "NaN", n |-> 0]
Null == [kind |-> "null", n |-> 0]
Undefined == [kind |-> "undefined", n |-> 0]
Fn == [kind |-> "function", n |-> 0]

\* obj[key]: an own property, else what the prototype chain supplies.
Get(obj, key) ==
    IF key \in DOMAIN obj THEN obj[key]
    ELSE IF key \in ObjectPrototype THEN Fn
    ELSE Undefined

\* obj[key] = v
Put(obj, key, v) ==
    [k \in DOMAIN obj \cup {key} |-> IF k = key THEN v ELSE obj[k]]

Truthy(v) ==
    \/ v.kind \in {"string", "function"}
    \/ v.kind = "number" /\ v.n # 0

\* v || 0
OrZero(v) == IF Truthy(v) THEN v ELSE Num(0)

\* v + 1: numeric addition, or string concatenation when v is not a number.
PlusOne(v) ==
    CASE v.kind = "number" -> Num(v.n + 1)
      [] v.kind = "string" -> Str(v.n + 1)
      [] v.kind = "function" -> Str(1)
      [] OTHER -> NaN

\* v - 1: a non-numeric operand converts to NaN.
MinusOne(v) == IF v.kind = "number" THEN Num(v.n - 1) ELSE NaN

\* MathMax0 without the floor: a number is returned as it is.
MathMax0_NoFloor(v) ==
    IF v.kind = "number" THEN v ELSE NaN

\* Math.max(0, v)
MathMax0(v) ==
    IF v.kind = "number" THEN (IF v.n > 0 THEN v ELSE Num(0)) ELSE NaN

\* JSON.parse(JSON.stringify(v)) of a property value: NaN is written as null.
JSONValue(v) == IF v.kind = "NaN" THEN Null ELSE v

\* JSON.parse(JSON.stringify(obj)) of the mastery object.
JSONObject(obj) == [k \in DOMAIN obj |-> JSONValue(obj[k])]

\* Number.prototype.toString(): the decimal digits, most significant first.
RECURSIVE ToString(_)
ToString(n) == IF n < 10 THEN <<n>> ELSE Append(ToString(n \div 10), n % 10)

\* --------------------------------------------------------- localStorage
\* An item is absent (getItem returns null), or holds the parsed form of the
\* JSON text that was written, or holds text that is not JSON (json is FALSE:
\* JSON.parse throws a SyntaxError on it).  The application writes JSON only;
\* text that is not JSON comes from outside it (another program of the same
\* origin, the browser's storage inspector, a truncated write).
NoItem == [has |-> FALSE, json |-> TRUE, v |-> <<>>]
Item(x) == [has |-> TRUE, json |-> TRUE, v |-> x]
NotJSON == [has |-> TRUE, json |-> FALSE, v |-> <<>>]
\* JSON.parse(localStorage.getItem(key) || fallback) returns, fallback being
\* '{}' or '[]': the item is absent or its text parses.
Parses(item) == ~item.has \/ item.json
\* JSON.parse(localStorage.getItem(key) || fallback), when it returns.
Load(item) == IF item.has THEN item.v ELSE <<>>
\* The loads of the two mount effects: getItem, then JSON.parse inside
\* try/catch, the state keeping its initial [] when the item is absent or
\* the parse throws.
LoadOrKeep(item) == IF item.has /\ item.json THEN item.v ELSE <<>>

\* ------------------------------------------------------------ sequences
Range(s) == {s[i] : i \in 1..Len(s)}

\* Set.prototype.add / delete on a Set kept in insertion order.
SetAdd(s, x) == IF x \in Range(s) THEN s ELSE Append(s, x)
SetDelete(s, x) == SelectSeq(s, LAMBDA y : y # x)

\* Array.prototype.sort((a, b) => b.date - a.date): stable, date descending.
RECURSIVE InsertByDate(_, _)
InsertByDate(sorted, r) ==
    IF sorted = <<>> THEN <<r>>
    ELSE IF Head(sorted).date >= r.date
         THEN <<Head(sorted)>> \o InsertByDate(Tail(sorted), r)
         ELSE <<r>> \o sorted

RECURSIVE SortByDateDesc(_)
SortByDateDesc(s) ==
    IF s = <<>> THEN <<>>
    ELSE InsertByDate(SortByDateDesc(SubSeq(s, 1, Len(s) - 1)), s[Len(s)])

\* ------------------------------------------------------------------ state
VARIABLES
    \* localStorage
    lsMastery,          \* 'studyBuddy_topic_mastery'
    lsWeak,             \* 'studyBuddy_weakTopics'
    lsHistory,          \* 'studyBuddy_quizHistory'
    lsProfile,          \* 'studyBuddy_profile'
    lsSessions,         \* 'studyBuddy_sessions'
    lsMessages,         \* 'studyBuddy_messages'
    now,                \* the last value Date.now() returned
    \* App
    showQuiz, showHistory, showSettings,
    userProfile,
    materials,          \* the study materials, in list order
    \* StudyMaterials
    reading,            \* contents of the files a FileReader is reading
    summarizing,        \* ids of the materials a summarizeMaterial call is awaited for
    \* SettingsModal
    settingsTimer,      \* the setTimeout of its handleSubmit is pending
    \* ChatInterface
    sessions, messagesMap, activeSessionId, isLoading, isVoiceMode,
    recognition,        \* the SpeechRecognition listening, with the state its handlers see
    timers,             \* the pending setTimeout(() => triggerSend(transcript), 100)
    calls,              \* the handleSendMessage runs awaiting the tutor or the speech
    sends,              \* sends accepted so far
    acts,               \* the clicks MaxActs bounds, so far
    \* QuizOverlay
    step, selectedSubject, focusTopic, quizData, answers, submitted, score,
    availableWeakTopics,
    selectedMaterialIds,
    error,              \* the error message of the setup screen, "" for null
    request,            \* the generateQuizFromMaterials call handleStartQuiz awaits
    \* QuizHistoryModal
    history,
    \* handleSubmit in progress
    pc, qi, correctCount, currentMastery, weakTopicsSet,
    \* history variables of the model
    pre,                \* the three items as handleSubmit found them
    applied,            \* line 119 runs for the quiz instance on screen
    appended,           \* line 141 runs for the quiz instance on screen
    submits,            \* runs of handleSubmit so far
    asked,              \* questions generated so far
    last                \* the last step, when it was a crash, a throw, a confirm() or
                        \* an alert()

storage == <<lsMastery, lsWeak, lsHistory>>
form == <<selectedSubject, focusTopic, availableWeakTopics, selectedMaterialIds>>
generation == <<error, request>>
overlay == <<step, form, generation, quizData, answers, submitted, score>>
locals == <<pc, qi, correctCount, currentMastery, weakTopicsSet>>
ghost == <<pre, applied, appended>>
counters == <<submits, asked>>
library == <<materials, reading, summarizing>>
otherStorage == <<lsProfile, lsSessions, lsMessages>>
settings == <<showSettings, userProfile, settingsTimer>>
chat == <<sessions, messagesMap, activeSessionId, isLoading, isVoiceMode, recognition,
          timers, calls, sends>>
elsewhere == <<otherStorage, settings, chat, acts>>
vars == <<storage, now, showQuiz, showHistory, library, elsewhere, overlay, history,
          locals, ghost, counters, last>>

NoQuiz == [loaded |-> FALSE, title |-> "", questions |-> <<>>]
NoRequest == [sent |-> FALSE, materials |-> <<>>]
NoPre == [mastery |-> NoItem, weak |-> NoItem, history |-> NoItem]
Quiet == [ev |-> "", at |-> "", n |-> 0]
Event(e, at, n) == [ev |-> e, at |-> at, n |-> n]

\* The ids of the questions of a generated quiz: the schema asks for an
\* integer and nothing makes them distinct.  The ids are 1..n, or the same
\* id for every question.
QuestionIds(n) == {[i \in 1..n |-> i], [i \in 1..n |-> 1]}

\* The quizzes generateQuizFromMaterials can resolve to: any title, up to
\* MaxAsked questions, any topic label each.
Questions(n) ==
    {[i \in 1..n |-> [id |-> ids[i], topic |-> f[i][1], correctAnswerIndex |-> f[i][2]]] :
        f \in [1..n -> Topics \X CorrectIndexes], ids \in QuestionIds(n)}
\* The ids on the option buttons of a quiz.
QuestionIdsOf(data) == {data.questions[i].id : i \in 1..Len(data.questions)}

QuizDatas ==
    {[loaded |-> TRUE, title |-> t, questions |-> q] :
        t \in Titles, q \in UNION {Questions(n) : n \in 0..MaxAsked}}

\* StudyMaterial: the notes (type 'text') and an uploaded file (type 'pdf').
\* An undefined summary is "", an undefined isSummarizing is FALSE.
Note(id, content, summary) ==
    [id |-> id, type |-> "text", content |-> content, summary |-> summary,
     isSummarizing |-> FALSE]
Pdf(id, content) ==
    [id |-> id, type |-> "pdf", content |-> content, summary |-> "",
     isSummarizing |-> FALSE]
\* What the notes textarea can hold, and the base64 text of an uploaded file.
NoteTexts == {"", "notes"}
PdfContents == {"JVBERi0x"}
\* generateId(): an id no material has or had.  The notes get one of
\* NoteIds ("n1" where one is enough), a file the first of PdfIds that no
\* material has and no pending summary is for.
NoteId == "n1"
NoteIds == {"n1", "n2"}
PdfIds == {"p1"}
MaterialIds == {materials[i].id : i \in 1..Len(materials)}

\* materials.length === 0 || materials.every(m => !m.content), negated: the
\* request goes out to the service.
HasContent(ms) == Len(ms) > 0 /\ \E i \in 1..Len(ms) : ms[i].content # ""

\* The messages of the errors generateQuizFromMaterials rejects with: the
\* one of line 163, the one of line 226, and an error without a message
\* (a failure of the request itself).
NoContentMessage == "Please add some notes or upload a PDF to generate a quiz."
FailureMessages == {"No data returned", ""}

\* ------------------------------------------------ App and ChatInterface
\* useState initial value of userProfile.
DefaultProfile ==
    [name |-> "Student", learningStyle |-> "Visual", difficultyLevel |-> "Intermediate",
     voice |-> "Kore", notifications |-> TRUE]
\* What the form of the settings modal can hold when it is submitted.
UserProfiles ==
    {DefaultProfile,
     [name |-> "Ada", learningStyle |-> "Auditory", difficultyLevel |-> "Advanced",
      voice |-> "Puck", notifications |-> FALSE]}

ChatSession(id, name, type, members) ==
    [id |-> id, name |-> name, type |-> type, members |-> members]
DEFAULT_SESSIONS ==
    <<ChatSession("general", "General", "personal", 0),
      ChatSession("g1", "Physics 101 Study Group", "group", 4),
      ChatSession("g2", "Calculus Finals Prep", "group", 8)>>

\* Message, without its timestamp.
Message(role, text) == [role |-> role, text |-> text]
\* The initial value of messagesMap when nothing is stored: ChatInterface
\* first renders with the default profile, whose name is in the greeting.
DefaultMessages ==
    [id \in {"general", "g1", "g2"} |->
        <<Message("model",
            CASE id = "general" ->
                   "Hello Student! I am your General StudyBuddy. How can I help you today?"
              [] id = "g1" ->
                   "Welcome to Physics 101! I am here to help the group with physics problems."
              [] id = "g2" ->
                   "Let's crush Calculus! Ask me anything about limits, derivatives, or integrals.")>>]

\* What is typed or spoken, what the tutor answers (the text of the response,
\* or the fallback of sendMessageToTutor for an empty one), and the summaries
\* summarizeMaterial resolves to.
UserTexts == {"hi"}
TutorReplies == {"reply", "I'm sorry, I couldn't generate a response."}
ErrorReply == "Sorry, I encountered an error. Please try again."
Summaries == {"summary", "Could not generate summary."}

\* The names typed into the creation modal and the rename prompt, the ids
\* `s-${Date.now()}` and `g-${Date.now()}` at the times of the model's clock,
\* and the greeting of a created session.
SessionNames == {"Math"}
NewSessionId(type, t) ==
    IF type = "personal" THEN <<"s-1", "s-2", "s-3", "s-4", "s-5", "s-6">>[t]
    ELSE <<"g-1", "g-2", "g-3", "g-4", "g-5", "g-6">>[t]
CreatedGreeting(type, name) ==
    CASE type = "personal" /\ name = "Math" ->
            "I am your Math tutor. What specifically in Math are we studying today?"
      [] type = "group" /\ name = "Math" -> "Welcome to the Math group chat!"

SessionIds == {sessions[i].id : i \in 1..Len(sessions)}
\* prev[id] || []
MessagesOf(map, id) == IF id \in DOMAIN map THEN map[id] ELSE <<>>
\* { ...prev, [id]: [...(prev[id] || []), msg] }
AppendMessage(map, id, msg) ==
    [k \in DOMAIN map \cup {id} |->
        IF k = id THEN Append(MessagesOf(map, id), msg) ELSE map[k]]
\* { ...prev, [id]: msgs }
PutMessages(map, id, msgs) ==
    [k \in DOMAIN map \cup {id} |-> IF k = id THEN msgs ELSE map[k]]
\* delete newMap[id]
DeleteMessages(map, id) == [k \in DOMAIN map \ {id} |-> map[k]]

\* No SpeechRecognition is listening.  A listening one carries the isLoading,
\* activeSessionId and isVoiceMode of the render toggleListening ran in: its
\* onresult handler calls that render's handleSendMessage.
NoRecognition == [on |-> FALSE, isLoading |-> FALSE, session |-> "", voice |-> FALSE]

\* useState initial values of App's settings and of ChatInterface, given
\* what the three items hold; the two effects of ChatInterface write the
\* sessions and the messages back at once (lines 35-41).
AppMounted ==
    /\ showSettings = FALSE
    /\ settingsTimer = FALSE
    /\ userProfile = IF lsProfile.has /\ lsProfile.json THEN lsProfile.v ELSE DefaultProfile
    /\ sessions = DEFAULT_SESSIONS
    /\ messagesMap = DefaultMessages
    /\ lsSessions = Item(DEFAULT_SESSIONS)
    /\ lsMessages = Item(DefaultMessages)
    /\ activeSessionId = "general"
    /\ isLoading = FALSE
    /\ isVoiceMode = FALSE
    /\ recognition = NoRecognition
    /\ timers = {}
    /\ calls = {}

\* useState initial values of QuizOverlay (a fresh mount).
OverlayMounted ==
    /\ step = "setup"
    /\ selectedSubject = "General / Any"
    /\ focusTopic = ""
    /\ quizData = NoQuiz
    /\ answers = <<>>
    /\ submitted = FALSE
    /\ score = 0
    /\ availableWeakTopics = <<>>
    /\ selectedMaterialIds = {}
    /\ error = ""
    /\ request = NoRequest

LocalsIdle ==
    /\ pc = "idle"
    /\ qi = 0
    /\ correctCount = 0
    /\ currentMastery = <<>>
    /\ weakTopicsSet = <<>>

GhostReset ==
    /\ pre = NoPre
    /\ applied = 0
    /\ appended = 0

\* The overlay unmounts: the next mount starts from the useState initial values.
Unmount ==
    /\ step' = "setup"
    /\ selectedSubject' = "General / Any"
    /\ focusTopic' = ""
    /\ quizData' = NoQuiz
    /\ answers' = <<>>
    /\ submitted' = FALSE
    /\ score' = 0
    /\ availableWeakTopics' = <<>>
    /\ selectedMaterialIds' = {}
    /\ error' = ""
    /\ request' = NoRequest

\* handleSubmit is left (return, exception, loss of the page): its locals are gone.
Return ==
    /\ pc' = "idle"
    /\ qi' = 0
    /\ correctCount' = 0
    /\ currentMastery' = <<>>
    /\ weakTopicsSet' = <<>>

Forget ==
    /\ pre' = NoPre
    /\ applied' = 0
    /\ appended' = 0

\* The application has started: App shows no overlay and has no materials.
Started ==
    /\ now = 1
    /\ showQuiz = FALSE
    /\ showHistory = FALSE
    /\ materials = <<>>
    /\ reading = {}
    /\ summarizing = {}
    /\ lsProfile = NoItem
    /\ AppMounted
    /\ sends = 0
    /\ acts = 0
    /\ OverlayMounted
    /\ history = <<>>
    /\ LocalsIdle
    /\ GhostReset
    /\ submits = 0
    /\ asked = 0
    /\ last = Quiet

Init ==
    /\ lsMastery = NoItem
    /\ lsWeak = NoItem
    /\ lsHistory = NoItem
    /\ Started

\* ------------------------------------------------------------------- App
\* The "Quiz Mode" buttons: setShowQuiz(true) mounts a fresh QuizOverlay, whose
\* mount effect (lines 39-48) loads the weak-topic list for the suggestions.
\* Either overlay covers the header (fixed inset-0 z-50), so one is opened
\* while the other is closed.
OpenQuiz ==
    /\ pc = "idle"
    /\ ~showQuiz /\ ~showHistory /\ ~showSettings
    /\ showQuiz' = TRUE
    /\ availableWeakTopics' = LoadOrKeep(lsWeak)
    /\ selectedMaterialIds' = MaterialIds
    /\ last' = Quiet
    /\ UNCHANGED <<library, elsewhere, storage, now, showHistory, step, selectedSubject, focusTopic,
                   generation, quizData, answers, submitted, score, history, locals,
                   ghost, counters>>

\* onClose of the overlay (setup screen, quiz header, "Return to Dashboard"):
\* the component unmounts and its state is gone.  The loading screen has no
\* close button.
CloseQuiz ==
    /\ pc = "idle"
    /\ showQuiz
    /\ step # "loading"
    /\ showQuiz' = FALSE
    /\ Unmount
    /\ Forget
    /\ last' = Quiet
    /\ UNCHANGED <<library, elsewhere, storage, now, showHistory, history, locals, counters>>

\* The page is lost (tab closed, reload, process killed), at any point, also
\* inside a handler: localStorage survives, every React state and every local
\* of a running handler is gone, the materials with them.  With no overlay
\* open and no materials there is nothing to lose.
Crash ==
    /\ \/ showQuiz \/ showHistory \/ materials # <<>> \/ reading # {}
       \/ showSettings \/ settingsTimer \/ summarizing # {}
       \/ activeSessionId # "general" \/ isLoading \/ isVoiceMode
       \/ recognition.on \/ timers # {} \/ calls # {}
    /\ showQuiz' = FALSE
    /\ showHistory' = FALSE
    /\ materials' = <<>>
    /\ reading' = {}
    /\ summarizing' = {}
    /\ showSettings' = FALSE
    /\ settingsTimer' = FALSE
    /\ userProfile' = IF lsProfile.has /\ lsProfile.json THEN lsProfile.v ELSE DefaultProfile
    /\ sessions' = lsSessions.v
    /\ messagesMap' = lsMessages.v
    /\ activeSessionId' = "general"
    /\ isLoading' = FALSE
    /\ isVoiceMode' = FALSE
    /\ recognition' = NoRecognition
    /\ timers' = {}
    /\ calls' = {}
    /\ Unmount
    /\ history' = <<>>
    /\ Return
    /\ Forget
    /\ last' = Event("crash", pc, IF pc = "L101" THEN qi - 1 ELSE 0)
    /\ UNCHANGED <<storage, otherStorage, now, counters, sends, acts>>

\* -------------------------------------------------------- StudyMaterials
\* The chat and the materials panel are on the main screen, which an open
\* overlay covers.
MainScreen == pc = "idle" /\ ~showQuiz /\ ~showHistory /\ ~showSettings

\* HandleNotesChange with "id: generateId()" for line 56.
HandleNotesChange_NewId(newText, newId) ==
    /\ MainScreen
    /\ newId \notin MaterialIds
    /\ LET others == SelectSeq(materials, LAMBDA m : m.type # "text")
           texts == SelectSeq(materials, LAMBDA m : m.type = "text")
       IN materials' = Append(others,
                              IF texts = <<>> THEN Note(newId, newText, "")
                              ELSE Note(newId, newText, texts[1].summary))
    /\ last' = Quiet
    /\ UNCHANGED <<summarizing, elsewhere, storage, now, showQuiz, showHistory, reading, overlay, history, locals,
                   ghost, counters>>

\* handleNotesChange: the notes textarea changes to newText; newId is what
\* generateId() would return.  The text material is replaced by a new object
\* with the old id and summary, moved behind the other materials.
HandleNotesChange(newText, newId) ==
    /\ MainScreen
    /\ newId \notin MaterialIds \cap PdfIds
    /\ LET others == SelectSeq(materials, LAMBDA m : m.type # "text")
           texts == SelectSeq(materials, LAMBDA m : m.type = "text")
       IN materials' = Append(others,
                              IF texts = <<>> THEN Note(newId, newText, "")
                              ELSE Note(IF texts[1].id # "" THEN texts[1].id ELSE newId,
                                        newText, texts[1].summary))
    /\ last' = Quiet
    /\ UNCHANGED <<summarizing, elsewhere, storage, now, showQuiz, showHistory, reading, overlay, history, locals,
                   ghost, counters>>

\* handleFileUpload: a PDF is chosen and a FileReader starts reading it.
HandleFileUpload(content) ==
    /\ MainScreen
    /\ content \notin reading
    /\ Cardinality(reading) + Cardinality((MaterialIds \cup summarizing) \cap PdfIds)
          < Cardinality(PdfIds)
    /\ reading' = reading \cup {content}
    /\ last' = Quiet
    /\ UNCHANGED <<summarizing, elsewhere, storage, now, showQuiz, showHistory, materials, overlay, history,
                   locals, ghost, counters>>

\* reader.onload: the file is appended to the materials, whatever is on
\* screen by then.
ReaderOnload(content) ==
    /\ pc = "idle"
    /\ content \in reading
    /\ reading' = reading \ {content}
    /\ materials' = Append(materials,
                           Pdf(CHOOSE id \in PdfIds : id \notin MaterialIds \cup summarizing,
                               content))
    /\ last' = Quiet
    /\ UNCHANGED <<summarizing, elsewhere, storage, now, showQuiz, showHistory, overlay, history, locals, ghost,
                   counters>>

\* removePdf(id)
RemovePdf(id) ==
    /\ MainScreen
    /\ id \in MaterialIds \cap PdfIds
    /\ materials' = SelectSeq(materials, LAMBDA m : m.id # id)
    /\ last' = Quiet
    /\ UNCHANGED <<summarizing, elsewhere, storage, now, showQuiz, showHistory, reading, overlay, history, locals,
                   ghost, counters>>

\* One more click of those MaxActs bounds.
Act == acts < MaxActs /\ acts' = acts + 1

\* handleSummarize(material): the Summarize button of a material with
\* content, enabled while the material is not being summarized.  One call
\* per material is awaited at a time.
HandleSummarize(id) ==
    /\ MainScreen
    /\ id \notin summarizing
    /\ \E i \in 1..Len(materials) :
          /\ materials[i].id = id
          /\ materials[i].content # ""
          /\ ~materials[i].isSummarizing
    /\ materials' = [i \in 1..Len(materials) |->
                        IF materials[i].id = id
                        THEN [materials[i] EXCEPT !.isSummarizing = TRUE]
                        ELSE materials[i]]
    /\ summarizing' = summarizing \cup {id}
    /\ last' = Quiet
    /\ Act
    /\ UNCHANGED <<otherStorage, settings, chat, storage, now, showQuiz, showHistory, reading, overlay, history,
                   locals, ghost, counters>>

\* Line 96: summarizeMaterial resolved.
SummaryDone(id, summary) ==
    /\ pc = "idle"
    /\ id \in summarizing
    /\ materials' = [i \in 1..Len(materials) |->
                        IF materials[i].id = id
                        THEN [materials[i] EXCEPT !.summary = summary,
                                                  !.isSummarizing = FALSE]
                        ELSE materials[i]]
    /\ summarizing' = summarizing \ {id}
    /\ last' = Quiet
    /\ UNCHANGED <<elsewhere, storage, now, showQuiz, showHistory, reading, overlay, history,
                   locals, ghost, counters>>

\* SummaryFailed without line 98.
SummaryFailed_FlagStays(id) ==
    /\ pc = "idle"
    /\ id \in summarizing
    /\ summarizing' = summarizing \ {id}
    /\ last' = Event("alert", "Failed to summarize content.", 0)
    /\ UNCHANGED <<materials, elsewhere, storage, now, showQuiz, showHistory, reading, overlay,
                   history, locals, ghost, counters>>

\* Lines 97-99: summarizeMaterial rejected; the alert of line 99 is shown.
SummaryFailed(id) ==
    /\ pc = "idle"
    /\ id \in summarizing
    /\ materials' = [i \in 1..Len(materials) |->
                        IF materials[i].id = id
                        THEN [materials[i] EXCEPT !.isSummarizing = FALSE]
                        ELSE materials[i]]
    /\ summarizing' = summarizing \ {id}
    /\ last' = Event("alert", "Failed to summarize content.", 0)
    /\ UNCHANGED <<elsewhere, storage, now, showQuiz, showHistory, reading, overlay, history,
                   locals, ghost, counters>>

\* ------------------------------------------------- App: profile & settings
quizSide == <<storage, showQuiz, showHistory, library, overlay, history, locals, ghost,
              counters>>

\* The Settings button of the header.
OpenSettings ==
    /\ MainScreen
    /\ showSettings' = TRUE
    /\ Act
    /\ last' = Quiet
    /\ UNCHANGED <<quizSide, now, otherStorage, userProfile, settingsTimer, chat>>

\* The X of the settings modal.
CloseSettings ==
    /\ pc = "idle"
    /\ showSettings
    /\ showSettings' = FALSE
    /\ last' = Quiet
    /\ UNCHANGED <<acts, quizSide, now, otherStorage, userProfile, settingsTimer, chat>>

\* HandleSaveProfile with localStorage.clear() before the setItem.
HandleSaveProfile_ClearFirst(newProfile) ==
    /\ pc = "idle"
    /\ showSettings
    /\ userProfile' = newProfile
    /\ lsProfile' = Item(newProfile)
    /\ lsMastery' = NoItem
    /\ lsWeak' = NoItem
    /\ lsHistory' = NoItem
    /\ lsSessions' = NoItem
    /\ lsMessages' = NoItem
    /\ settingsTimer' = TRUE
    /\ Act
    /\ last' = Quiet
    /\ UNCHANGED <<showQuiz, showHistory, library, overlay, history, locals, ghost,
                   counters, now, showSettings, chat>>

\* handleSubmit of SettingsModal: onSave is handleSaveProfile of App (lines
\* 53-56), and a timer is set that closes the modal.
HandleSaveProfile(newProfile) ==
    /\ pc = "idle"
    /\ showSettings
    /\ userProfile' = newProfile
    /\ lsProfile' = Item(newProfile)
    /\ settingsTimer' = TRUE
    /\ Act
    /\ last' = Quiet
    /\ UNCHANGED <<quizSide, now, lsSessions, lsMessages, showSettings, chat>>

\* The timer of handleSubmit, 800 ms later: onClose().
SettingsTimeout ==
    /\ pc = "idle"
    /\ settingsTimer
    /\ settingsTimer' = FALSE
    /\ showSettings' = FALSE
    /\ last' = Quiet
    /\ UNCHANGED <<acts, quizSide, now, otherStorage, userProfile, chat>>

\* ---------------------------------------------------------- ChatInterface
\* A run of handleSendMessage up to its first await, for the render whose
\* isLoading, activeSessionId and isVoiceMode it closes over (lines 226-243).
\* The effect of lines 39-41 stores the messages.
Send(loading, session, voice, text) ==
    /\ ~loading
    /\ messagesMap' = AppendMessage(messagesMap, session, Message("user", text))
    /\ lsMessages' = Item(messagesMap')
    /\ isLoading' = TRUE
    /\ calls' = calls \cup {[n |-> sends + 1, session |-> session, voice |-> voice,
                             stage |-> "tutor"]}
    /\ sends' = sends + 1

\* The send button and the Enter key.
HandleSendMessage(text) ==
    /\ MainScreen
    /\ Send(isLoading, activeSessionId, isVoiceMode, text)
    /\ Act
    /\ last' = Quiet
    /\ UNCHANGED <<quizSide, now, lsProfile, lsSessions, settings, sessions,
                   activeSessionId, isVoiceMode, recognition, timers>>

\* The Voice Mode toggle.
ToggleVoiceMode ==
    /\ MainScreen
    /\ isVoiceMode' = ~isVoiceMode
    /\ Act
    /\ last' = Quiet
    /\ UNCHANGED <<quizSide, now, otherStorage, settings, sessions, messagesMap,
                   activeSessionId, isLoading, recognition, timers, calls, sends>>

\* toggleListening: the microphone button stops the recognition that is
\* listening, or starts one.  A recognition takes longer than the 100 ms of
\* the timer of onresult, so none is started while a timer is pending.
ToggleListening ==
    /\ MainScreen
    /\ timers = {}
    /\ recognition' = IF recognition.on THEN NoRecognition
                      ELSE [on |-> TRUE, isLoading |-> isLoading,
                            session |-> activeSessionId, voice |-> isVoiceMode]
    /\ Act
    /\ last' = Quiet
    /\ UNCHANGED <<quizSide, now, otherStorage, settings, sessions, messagesMap,
                   activeSessionId, isLoading, isVoiceMode, timers, calls, sends>>

\* recognition.onresult with a transcript, then onend: the timer that sends
\* the transcript is set.
RecognitionResult(transcript) ==
    /\ pc = "idle"
    /\ recognition.on
    /\ timers' = timers \cup {[isLoading |-> recognition.isLoading,
                               session |-> recognition.session,
                               voice |-> recognition.voice,
                               text |-> transcript]}
    /\ recognition' = NoRecognition
    /\ last' = Quiet
    /\ UNCHANGED <<acts, quizSide, now, otherStorage, settings, sessions, messagesMap,
                   activeSessionId, isLoading, isVoiceMode, calls, sends>>

\* recognition.onend or onerror without a result.
RecognitionEnd ==
    /\ pc = "idle"
    /\ recognition.on
    /\ recognition' = NoRecognition
    /\ last' = Quiet
    /\ UNCHANGED <<acts, quizSide, now, otherStorage, settings, sessions, messagesMap,
                   activeSessionId, isLoading, isVoiceMode, timers, calls, sends>>

\* The timer of onresult: triggerSend(transcript) runs the handleSendMessage
\* of the render the recognition was started in, which returns when that
\* render's isLoading was true.
TimerSend(timer) ==
    /\ pc = "idle"
    /\ timer \in timers
    /\ timers' = timers \ {timer}
    /\ IF timer.isLoading
       THEN UNCHANGED <<messagesMap, lsMessages, isLoading, calls, sends>>
       ELSE Send(FALSE, timer.session, timer.voice, timer.text)
    /\ last' = Quiet
    /\ UNCHANGED <<acts, quizSide, now, lsProfile, lsSessions, settings, sessions,
                   activeSessionId, isVoiceMode, recognition>>

\* Lines 244-258 and 276-278: sendMessageToTutor resolved.  The reply goes to
\* the session the send was made in.  In voice mode the speech is awaited
\* next, otherwise the run ends in its finally.
TutorReplied(call, text) ==
    /\ pc = "idle"
    /\ call \in calls
    /\ call.stage = "tutor"
    /\ messagesMap' = AppendMessage(messagesMap, call.session, Message("model", text))
    /\ lsMessages' = Item(messagesMap')
    /\ IF call.voice
       THEN /\ calls' = (calls \ {call}) \cup {[call EXCEPT !.stage = "speech"]}
            /\ UNCHANGED isLoading
       ELSE /\ calls' = calls \ {call}
            /\ isLoading' = FALSE
    /\ last' = Quiet
    /\ UNCHANGED <<acts, quizSide, now, lsProfile, lsSessions, settings, sessions,
                   activeSessionId, isVoiceMode, recognition, timers, sends>>

\* Lines 271-278: sendMessageToTutor rejected.
TutorFailed(call) ==
    /\ pc = "idle"
    /\ call \in calls
    /\ call.stage = "tutor"
    /\ messagesMap' = AppendMessage(messagesMap, call.session, Message("model", ErrorReply))
    /\ lsMessages' = Item(messagesMap')
    /\ calls' = calls \ {call}
    /\ isLoading' = FALSE
    /\ last' = Quiet
    /\ UNCHANGED <<acts, quizSide, now, lsProfile, lsSessions, settings, sessions,
                   activeSessionId, isVoiceMode, recognition, timers, sends>>

\* Lines 261-270 and 276-278: generateSpeech resolved (the audio plays) or
\* rejected (a microphone error is shown); the run ends in its finally.
SpeechSettled(call) ==
    /\ pc = "idle"
    /\ call \in calls
    /\ call.stage = "speech"
    /\ calls' = calls \ {call}
    /\ isLoading' = FALSE
    /\ last' = Quiet
    /\ UNCHANGED <<acts, quizSide, now, otherStorage, settings, sessions, messagesMap,
                   activeSessionId, isVoiceMode, recognition, timers, sends>>

\* A click on a session of the side bar.
SetActiveSessionId(id) ==
    /\ MainScreen
    /\ id \in SessionIds
    /\ activeSessionId' = id
    /\ last' = Quiet
    /\ UNCHANGED <<acts, quizSide, now, otherStorage, settings, sessions, messagesMap,
                   isLoading, isVoiceMode, recognition, timers, calls, sends>>

\* submitCreate at time t, with a name in the creation modal.  The effects
\* of lines 35-41 store the sessions and the messages.
SubmitCreate(type, name, t) ==
    /\ MainScreen
    /\ now' = t
    /\ LET newId == NewSessionId(type, t)
       IN /\ sessions' = Append(sessions,
                                ChatSession(newId, name, type,
                                            IF type = "group" THEN 1 ELSE 0))
          /\ messagesMap' = PutMessages(messagesMap, newId,
                                        <<Message("model", CreatedGreeting(type, name))>>)
          /\ activeSessionId' = newId
    /\ lsSessions' = Item(sessions')
    /\ lsMessages' = Item(messagesMap')
    /\ Act
    /\ last' = Quiet
    /\ UNCHANGED <<quizSide, lsProfile, settings, isLoading, isVoiceMode, recognition,
                   timers, calls, sends>>

\* handleRenameSession: prompt() returned newName.
HandleRenameSession(id, newName) ==
    /\ MainScreen
    /\ id \in SessionIds \ {"general"}
    /\ sessions' = [i \in 1..Len(sessions) |->
                       IF sessions[i].id = id
                       THEN [sessions[i] EXCEPT !.name = newName]
                       ELSE sessions[i]]
    /\ lsSessions' = Item(sessions')
    /\ Act
    /\ last' = Quiet
    /\ UNCHANGED <<quizSide, now, lsProfile, lsMessages, settings, messagesMap,
                   activeSessionId, isLoading, isVoiceMode, recognition, timers, calls,
                   sends>>

\* HandleDeleteSession without lines 349-351.
HandleDeleteSession_KeepActive(sessionId) ==
    /\ MainScreen
    /\ sessionId \in SessionIds \ {"general"}
    /\ sessions' = SelectSeq(sessions, LAMBDA s : s.id # sessionId)
    /\ messagesMap' = DeleteMessages(messagesMap, sessionId)
    /\ lsSessions' = Item(sessions')
    /\ lsMessages' = Item(messagesMap')
    /\ Act
    /\ last' = Quiet
    /\ UNCHANGED <<quizSide, now, lsProfile, settings, activeSessionId, isLoading,
                   isVoiceMode, recognition, timers, calls, sends>>

\* handleDeleteSession, confirmed.  'general' has no delete button.
HandleDeleteSession(sessionId) ==
    /\ MainScreen
    /\ sessionId \in SessionIds \ {"general"}
    /\ sessions' = SelectSeq(sessions, LAMBDA s : s.id # sessionId)
    /\ messagesMap' = DeleteMessages(messagesMap, sessionId)
    /\ activeSessionId' = IF activeSessionId = sessionId THEN "general"
                          ELSE activeSessionId
    /\ lsSessions' = Item(sessions')
    /\ lsMessages' = Item(messagesMap')
    /\ Act
    /\ last' = Quiet
    /\ UNCHANGED <<quizSide, now, lsProfile, settings, isLoading, isVoiceMode,
                   recognition, timers, calls, sends>>

\* ----------------------------------------------------------- QuizOverlay
\* The subject <select> and the focus-topic input of the setup screen.  They
\* decide the topic field of the history record and nothing else; Next leaves
\* them at their initial values.
SetSelectedSubject(s) ==
    /\ pc = "idle" /\ showQuiz /\ step = "setup"
    /\ selectedSubject' = s
    /\ last' = Quiet
    /\ UNCHANGED <<library, elsewhere, storage, now, showQuiz, showHistory, step, focusTopic,
                   availableWeakTopics, selectedMaterialIds, generation, quizData,
                   answers, submitted, score, history, locals, ghost, counters>>

SetFocusTopic(f) ==
    /\ pc = "idle" /\ showQuiz /\ step = "setup"
    /\ focusTopic' = f
    /\ last' = Quiet
    /\ UNCHANGED <<library, elsewhere, storage, now, showQuiz, showHistory, step, selectedSubject,
                   availableWeakTopics, selectedMaterialIds, generation, quizData,
                   answers, submitted, score, history, locals, ghost, counters>>

\* toggleMaterial(id): a checkbox of the materials listed on the setup screen.
ToggleMaterial(id) ==
    /\ pc = "idle" /\ showQuiz /\ step = "setup"
    /\ id \in MaterialIds
    /\ selectedMaterialIds' = IF id \in selectedMaterialIds
                              THEN selectedMaterialIds \ {id}
                              ELSE selectedMaterialIds \cup {id}
    /\ last' = Quiet
    /\ UNCHANGED <<library, elsewhere, storage, now, showQuiz, showHistory, step, selectedSubject,
                   focusTopic, availableWeakTopics, generation, quizData, answers,
                   submitted, score, history, locals, ghost, counters>>

\* HandleStartQuiz without the check of line 64.
HandleStartQuiz_NoSelectionCheck ==
    /\ pc = "idle" /\ showQuiz /\ step = "setup"
    /\ Len(materials) > 0
    /\ step' = "loading"
    /\ error' = ""
    /\ request' = [sent |-> TRUE,
                   materials |-> SelectSeq(materials,
                                           LAMBDA m : m.id \in selectedMaterialIds)]
    /\ last' = Event("click", "start", 0)
    /\ UNCHANGED <<library, elsewhere, storage, now, showQuiz, showHistory, form,
                   quizData, answers, submitted, score, history, locals, ghost, counters>>

\* handleStartQuiz up to its await (lines 63-75); the button is disabled
\* while there are no materials (line 346).  With nothing selected the
\* handler sets the error and returns; else the request is issued with the
\* selected materials.
HandleStartQuiz ==
    /\ pc = "idle" /\ showQuiz /\ step = "setup"
    /\ Len(materials) > 0
    /\ IF selectedMaterialIds = {}
       THEN /\ error' = "Please select at least one study material."
            /\ UNCHANGED <<step, request>>
       ELSE /\ step' = "loading"
            /\ error' = ""
            /\ request' = [sent |-> TRUE,
                           materials |-> SelectSeq(materials,
                                                   LAMBDA m : m.id \in selectedMaterialIds)]
    /\ last' = Event("click", "start", 0)
    /\ UNCHANGED <<library, elsewhere, storage, now, showQuiz, showHistory, form,
                   quizData, answers, submitted, score, history, locals, ghost, counters>>

\* handleStartQuiz after its await (lines 76-80), the request having
\* resolved to data: it went out, the materials having content.
QuizGenerated(data) ==
    /\ pc = "idle" /\ showQuiz /\ step = "loading"
    /\ request.sent /\ HasContent(request.materials)
    /\ asked + Len(data.questions) <= MaxAsked
    /\ quizData' = data
    /\ step' = "quiz"
    /\ request' = NoRequest
    /\ asked' = asked + Len(data.questions)
    /\ last' = Quiet
    /\ UNCHANGED <<library, elsewhere, storage, now, showQuiz, showHistory, form, error,
                   answers, submitted, score, history, locals, ghost, submits>>

\* handleStartQuiz after its await (lines 81-85), the request having rejected
\* with an error of that message: the one of line 163 when the materials have
\* no content, a failure of the call otherwise.
QuizFailed(message) ==
    /\ pc = "idle" /\ showQuiz /\ step = "loading"
    /\ request.sent
    /\ IF HasContent(request.materials)
       THEN message \in FailureMessages
       ELSE message = NoContentMessage
    /\ error' = IF message # "" THEN message ELSE "Failed to generate quiz"
    /\ step' = "setup"
    /\ request' = NoRequest
    /\ last' = Quiet
    /\ UNCHANGED <<library, elsewhere, storage, now, showQuiz, showHistory, form,
                   quizData, answers, submitted, score, history, locals, ghost, counters>>

\* handleOptionSelect(qId, optionIdx): a click on an option of a question.
HandleOptionSelect(qId, optionIdx) ==
    /\ pc = "idle" /\ showQuiz /\ step = "quiz"
    /\ ~submitted
    /\ answers' = Put(answers, qId, optionIdx)
    /\ last' = Quiet
    /\ UNCHANGED <<library, elsewhere, storage, now, showQuiz, showHistory, step, form, generation,
                   quizData, submitted, score, history, locals, ghost, counters>>

\* ---------------------------------------------------------- handleSubmit
\* answers[q.id] === q.correctAnswerIndex
IsCorrect(ans, q) == q.id \in DOMAIN ans /\ ans[q.id] = q.correctAnswerIndex

\* MasteryAfter with "|| 1" for "|| 0) + 1": a correct answer sets an absent
\* or zero counter to 1 and leaves any other counter alone.
MasteryAfter_OrOne(m, topic, isCorrect) ==
    IF isCorrect
    THEN Put(m, topic, IF Truthy(Get(m, topic)) THEN Get(m, topic) ELSE Num(1))
    ELSE Put(m, topic, MathMax0(MinusOne(OrZero(Get(m, topic)))))

\* One iteration of the forEach on the mastery object.
MasteryAfter(m, topic, isCorrect) ==
    IF isCorrect
    THEN Put(m, topic, PlusOne(OrZero(Get(m, topic))))
    ELSE Put(m, topic, MathMax0(MinusOne(OrZero(Get(m, topic)))))

\* WeakAfter without the delete of lines 106-108.
WeakAfter_NoDelete(w, topic, isCorrect) ==
    IF isCorrect THEN w ELSE SetAdd(w, topic)

\* One iteration of the forEach on the weak-topic Set.
WeakAfter(w, topic, isCorrect) ==
    IF isCorrect
    THEN (IF topic \in Range(w) THEN SetDelete(w, topic) ELSE w)
    ELSE SetAdd(w, topic)

\* SubmitEnabled with the button enabled as soon as one answer is selected.
SubmitEnabled_AnyAnswer ==
    /\ showQuiz /\ step = "quiz"
    /\ ~submitted
    /\ Cardinality(DOMAIN answers) > 0

\* The "Submit Answers" button is rendered while the quiz is not submitted
\* and enabled when every question id has an answer.
SubmitEnabled ==
    /\ showQuiz /\ step = "quiz"
    /\ ~submitted
    /\ Cardinality(DOMAIN answers) = Len(quizData.questions)

\* Lines 93-99 when a JSON.parse of line 98 or 99 throws: the two loads are
\* in no try/catch, the SyntaxError leaves the handler before the forEach.
Submit_ParseThrows ==
    /\ pc = "idle"
    /\ SubmitEnabled
    /\ quizData.loaded
    /\ submits < MaxSubmits
    /\ ~Parses(lsMastery) \/ ~Parses(lsWeak)
    /\ submits' = submits + 1
    /\ last' = Event("SyntaxError", IF ~Parses(lsMastery) THEN "L98" ELSE "L99", 0)
    /\ UNCHANGED <<library, elsewhere, storage, now, showQuiz, showHistory, overlay, history, locals, ghost,
                   asked>>

\* Lines 93-99: the guard and the two loads.
Submit_Enter ==
    /\ pc = "idle"
    /\ SubmitEnabled
    /\ quizData.loaded
    /\ submits < MaxSubmits
    /\ Parses(lsMastery) /\ Parses(lsWeak)
    /\ submits' = submits + 1
    /\ correctCount' = 0
    /\ currentMastery' = Load(lsMastery)
    /\ weakTopicsSet' = Load(lsWeak)
    /\ qi' = 1
    /\ pc' = IF Len(quizData.questions) = 0 THEN "L119" ELSE "L101"
    /\ pre' = [mastery |-> lsMastery, weak |-> lsWeak, history |-> lsHistory]
    /\ last' = Quiet
    /\ UNCHANGED <<library, elsewhere, storage, now, showQuiz, showHistory, overlay, history, applied,
                   appended, asked>>

\* Submit_ForEach writing the mastery object through to storage in every
\* iteration.
Submit_ForEach_WriteThrough ==
    /\ pc = "L101"
    /\ LET q == quizData.questions[qi]
           isCorrect == IsCorrect(answers, q)
       IN /\ correctCount' = IF isCorrect THEN correctCount + 1 ELSE correctCount
          /\ weakTopicsSet' = WeakAfter(weakTopicsSet, q.topic, isCorrect)
          /\ currentMastery' = MasteryAfter(currentMastery, q.topic, isCorrect)
          /\ lsMastery' = Item(JSONObject(MasteryAfter(currentMastery, q.topic, isCorrect)))
    /\ qi' = qi + 1
    /\ pc' = IF qi = Len(quizData.questions) THEN "L119" ELSE "L101"
    /\ last' = Quiet
    /\ UNCHANGED <<library, elsewhere, lsWeak, lsHistory, now, showQuiz, showHistory, overlay, history, ghost,
                   counters>>

\* Lines 101-117: one iteration of the forEach, on the in-memory copies.
Submit_ForEach ==
    /\ pc = "L101"
    /\ LET q == quizData.questions[qi]
           isCorrect == IsCorrect(answers, q)
       IN /\ correctCount' = IF isCorrect THEN correctCount + 1 ELSE correctCount
          /\ weakTopicsSet' = WeakAfter(weakTopicsSet, q.topic, isCorrect)
          /\ currentMastery' = MasteryAfter(currentMastery, q.topic, isCorrect)
    /\ qi' = qi + 1
    /\ pc' = IF qi = Len(quizData.questions) THEN "L119" ELSE "L101"
    /\ last' = Quiet
    /\ UNCHANGED <<library, elsewhere, storage, now, showQuiz, showHistory, overlay, history, ghost, counters>>

\* Submit_WriteMastery writing the weak-topic list in the same step.
Submit_WriteMastery_WeakToo ==
    /\ pc = "L119"
    /\ lsMastery' = Item(JSONObject(currentMastery))
    /\ lsWeak' = Item(weakTopicsSet)
    /\ applied' = applied + 1
    /\ pc' = "L120"
    /\ last' = Quiet
    /\ UNCHANGED <<library, elsewhere, lsHistory, now, showQuiz, showHistory, overlay, history, qi,
                   correctCount, currentMastery, weakTopicsSet, pre, appended, counters>>

\* Line 119.
Submit_WriteMastery ==
    /\ pc = "L119"
    /\ lsMastery' = Item(JSONObject(currentMastery))
    /\ applied' = applied + 1
    /\ pc' = "L120"
    /\ last' = Quiet
    /\ UNCHANGED <<library, elsewhere, lsWeak, lsHistory, now, showQuiz, showHistory, overlay, history, qi,
                   correctCount, currentMastery, weakTopicsSet, pre, appended, counters>>

\* Submit_WriteWeak as a patch: only the topics of the quiz are written.
Submit_WriteWeak_QuizTopicsOnly ==
    /\ pc = "L120"
    /\ lsWeak' = Item(SelectSeq(weakTopicsSet,
                        LAMBDA topic : \E i \in 1..Len(quizData.questions) :
                                          quizData.questions[i].topic = topic))
    /\ pc' = "L141"
    /\ last' = Quiet
    /\ UNCHANGED <<library, elsewhere, lsMastery, lsHistory, now, showQuiz, showHistory, overlay, history, qi,
                   correctCount, currentMastery, weakTopicsSet, ghost, counters>>

\* Line 120.
Submit_WriteWeak ==
    /\ pc = "L120"
    /\ lsWeak' = Item(weakTopicsSet)
    /\ pc' = "L141"
    /\ last' = Quiet
    /\ UNCHANGED <<library, elsewhere, lsMastery, lsHistory, now, showQuiz, showHistory, overlay, history, qi,
                   correctCount, currentMastery, weakTopicsSet, ghost, counters>>

\* TopicDisplay without lines 127-129.
TopicDisplay_NoGeneral(focus, subject) ==
    IF focus # "" THEN focus
    ELSE IF subject # "General / Any" THEN subject
    ELSE ""

\* Lines 123-129.
TopicDisplay(focus, subject) ==
    IF focus # "" THEN focus
    ELSE IF subject # "General / Any" THEN subject
    ELSE "General"

\* Result with the number of questions for the score.
Result_ScoreIsTotal(t) ==
    [id |-> ToString(t),
     title |-> quizData.title,
     score |-> Len(quizData.questions),
     totalQuestions |-> Len(quizData.questions),
     date |-> t,
     topic |-> TopicDisplay(focusTopic, selectedSubject)]

\* Lines 131-138, t being what Date.now() returns (both calls: the same
\* millisecond): the millisecond of the last reading, or a later one, for
\* which now + 1 stands.
Result(t) ==
    [id |-> ToString(t),
     title |-> quizData.title,
     score |-> correctCount,
     totalQuestions |-> Len(quizData.questions),
     date |-> t,
     topic |-> TopicDisplay(focusTopic, selectedSubject)]

\* Submit_WriteHistory keeping no record of a quiz with no correct answer.
Submit_WriteHistory_SkipZero(t) ==
    /\ pc = "L141"
    /\ Parses(lsHistory)
    /\ now' = t
    /\ LET existingHistory == Load(lsHistory)
       IN lsHistory' = Item(IF correctCount = 0 THEN existingHistory
                            ELSE Append(existingHistory, Result(t)))
    /\ appended' = appended + 1
    /\ pc' = "L143"
    /\ last' = Quiet
    /\ UNCHANGED <<library, elsewhere, lsMastery, lsWeak, showQuiz, showHistory, overlay, history, qi,
                   correctCount, currentMastery, weakTopicsSet, pre, applied, counters>>

\* Lines 122-141.
Submit_WriteHistory(t) ==
    /\ pc = "L141"
    /\ Parses(lsHistory)
    /\ now' = t
    /\ LET existingHistory == Load(lsHistory)
       IN lsHistory' = Item(Append(existingHistory, Result(t)))
    /\ appended' = appended + 1
    /\ pc' = "L143"
    /\ last' = Quiet
    /\ UNCHANGED <<library, elsewhere, lsMastery, lsWeak, showQuiz, showHistory, overlay, history, qi,
                   correctCount, currentMastery, weakTopicsSet, pre, applied, counters>>

\* Lines 122-140 when the JSON.parse of line 140 throws: the mastery map and
\* the weak-topic list are written, the history is not, no state was set.
Submit_ParseHistoryThrows ==
    /\ pc = "L141"
    /\ ~Parses(lsHistory)
    /\ Return
    /\ pre' = NoPre
    /\ last' = Event("SyntaxError", "L140", 0)
    /\ UNCHANGED <<library, elsewhere, storage, now, showQuiz, showHistory, overlay, history, applied,
                   appended, counters>>

\* Submit_Finish without setSubmitted(true).
Submit_Finish_NotSubmitted ==
    /\ pc = "L143"
    /\ score' = correctCount
    /\ Return
    /\ pre' = NoPre
    /\ last' = Quiet
    /\ UNCHANGED <<library, elsewhere, storage, now, showQuiz, showHistory, step, form, generation,
                   quizData, answers, submitted, history, applied, appended, counters>>

\* Lines 143-152: setScore, setSubmitted; the handler returns.
Submit_Finish ==
    /\ pc = "L143"
    /\ score' = correctCount
    /\ submitted' = TRUE
    /\ Return
    /\ pre' = NoPre
    /\ last' = Quiet
    /\ UNCHANGED <<library, elsewhere, storage, now, showQuiz, showHistory, step, form, generation,
                   quizData, answers, history, applied, appended, counters>>

\* Submit_SetItemThrows with the exception caught and the handler going on to
\* lines 143-144.
Submit_SetItemThrows_Caught ==
    /\ pc \in {"L119", "L120", "L141"}
    /\ pc = "L141" => Parses(lsHistory)
    /\ score' = correctCount
    /\ submitted' = TRUE
    /\ Return
    /\ pre' = NoPre
    /\ last' = Event("throw", pc, 0)
    /\ UNCHANGED <<library, elsewhere, storage, now, showQuiz, showHistory, step, form, generation, quizData, answers,
                   history, applied, appended, counters>>

\* localStorage.setItem throws (quota exceeded, storage disabled) at line 119,
\* 120 or 141: nothing catches it, the handler ends there, no state was set.
Submit_SetItemThrows ==
    /\ pc \in {"L119", "L120", "L141"}
    /\ pc = "L141" => Parses(lsHistory)
    /\ Return
    /\ pre' = NoPre
    /\ last' = Event("throw", pc, 0)
    /\ UNCHANGED <<library, elsewhere, storage, now, showQuiz, showHistory, overlay, history, applied,
                   appended, counters>>

\* ------------------------------------------------------ QuizHistoryModal
\* OpenHistory saving the list it sorted.
OpenHistory_WriteBack ==
    /\ pc = "idle"
    /\ ~showHistory /\ ~showQuiz /\ ~showSettings
    /\ showHistory' = TRUE
    /\ history' = SortByDateDesc(LoadOrKeep(lsHistory))
    /\ lsHistory' = IF lsHistory.has /\ lsHistory.json
                    THEN Item(SortByDateDesc(lsHistory.v)) ELSE lsHistory
    /\ last' = Quiet
    /\ UNCHANGED <<library, elsewhere, lsMastery, lsWeak, now, showQuiz, overlay, locals, ghost, counters>>

\* setShowHistory(true) and the mount effect (lines 12-23).
OpenHistory ==
    /\ pc = "idle"
    /\ ~showHistory /\ ~showQuiz /\ ~showSettings
    /\ showHistory' = TRUE
    /\ history' = SortByDateDesc(LoadOrKeep(lsHistory))
    /\ last' = Quiet
    /\ UNCHANGED <<library, elsewhere, storage, now, showQuiz, overlay, locals, ghost, counters>>

CloseHistory ==
    /\ pc = "idle"
    /\ showHistory
    /\ showHistory' = FALSE
    /\ history' = <<>>
    /\ last' = Quiet
    /\ UNCHANGED <<library, elsewhere, storage, now, showQuiz, overlay, locals, ghost, counters>>

\* ClearHistory with localStorage.clear() for removeItem.
ClearHistory_ClearAll(ok) ==
    /\ pc = "idle"
    /\ showHistory
    /\ Len(history) > 0
    /\ IF ok
       THEN /\ lsHistory' = NoItem
            /\ lsMastery' = NoItem
            /\ lsWeak' = NoItem
            /\ history' = <<>>
       ELSE UNCHANGED <<storage, history>>
    /\ last' = Event("confirm", IF ok THEN "ok" ELSE "cancel", 0)
    /\ UNCHANGED <<library, elsewhere, now, showQuiz, showHistory, overlay, locals, ghost, counters>>

\* clearHistory (lines 25-30); the button is rendered when history is not
\* empty.  ok is what confirm() returns.
ClearHistory(ok) ==
    /\ pc = "idle"
    /\ showHistory
    /\ Len(history) > 0
    /\ IF ok
       THEN /\ lsHistory' = NoItem
            /\ history' = <<>>
       ELSE UNCHANGED <<lsHistory, history>>
    /\ last' = Event("confirm", IF ok THEN "ok" ELSE "cancel", 0)
    /\ UNCHANGED <<library, elsewhere, lsMastery, lsWeak, now, showQuiz, showHistory, overlay, locals, ghost,
                   counters>>

\* ----------------------------------------------------------- specification
Next ==
    \/ HandleNotesChange("notes", NoteId)
    \/ OpenQuiz
    \/ CloseQuiz
    \/ Crash
    \/ HandleStartQuiz
    \/ \E data \in QuizDatas : QuizGenerated(data)
    \/ QuizFailed("No data returned")
    \/ \E qId \in 1..MaxAsked, optionIdx \in Options :
          /\ qId \in {quizData.questions[i].id : i \in 1..Len(quizData.questions)}
          /\ HandleOptionSelect(qId, optionIdx)
    \/ Submit_Enter
    \/ Submit_ForEach
    \/ Submit_WriteMastery
    \/ Submit_WriteWeak
    \/ \E t \in {now, now + 1} : Submit_WriteHistory(t)
    \/ Submit_Finish
    \/ Submit_SetItemThrows
    \/ OpenHistory
    \/ CloseHistory
    \/ \E ok \in BOOLEAN : ClearHistory(ok)

Spec == Init /\ [][Next]_vars

\* The application started on storage in which each of the three items is
\* absent or holds text that is not JSON.
InitStored ==
    /\ lsMastery \in {NoItem, NotJSON}
    /\ lsWeak \in {NoItem, NotJSON}
    /\ lsHistory \in {NoItem, NotJSON}
    /\ Started

NextStored ==
    \/ Next
    \/ Submit_ParseThrows
    \/ Submit_ParseHistoryThrows

SpecStored == InitStored /\ [][NextStored]_vars

\* The materials panel and the quiz overlay's setup screen in full, with the
\* quizzes of one question on Algebra.
SetupQuizDatas ==
    {data \in QuizDatas :
        Len(data.questions) = 1 /\ data.questions[1].topic = "Algebra"}

NextSetup ==
    \/ \E newText \in NoteTexts : HandleNotesChange(newText, NoteId)
    \/ \E content \in PdfContents : HandleFileUpload(content)
    \/ \E content \in PdfContents : ReaderOnload(content)
    \/ \E id \in PdfIds : RemovePdf(id)
    \/ OpenQuiz
    \/ CloseQuiz
    \/ Crash
    \/ \E id \in PdfIds \cup {NoteId} : ToggleMaterial(id)
    \/ HandleStartQuiz
    \/ \E data \in SetupQuizDatas : QuizGenerated(data)
    \/ \E message \in FailureMessages \cup {NoContentMessage} : QuizFailed(message)
    \/ \E qId \in QuestionIdsOf(quizData), optionIdx \in Options :
          HandleOptionSelect(qId, optionIdx)
    \/ Submit_Enter
    \/ Submit_ForEach
    \/ Submit_WriteMastery
    \/ Submit_WriteWeak
    \/ \E t \in {now, now + 1} : Submit_WriteHistory(t)
    \/ Submit_Finish
    \/ Submit_SetItemThrows
    \/ OpenHistory
    \/ CloseHistory
    \/ \E ok \in BOOLEAN : ClearHistory(ok)

SpecSetup == Init /\ [][NextSetup]_vars

\* The whole application: the chat, the speech input, the profile, the
\* summaries and the sessions, next to the quiz and its history, with the
\* one quiz there is in a run: MaxAsked questions on Algebra.
AppQuizDatas ==
    {data \in QuizDatas :
        /\ Len(data.questions) = MaxAsked
        /\ \A i \in 1..MaxAsked : /\ data.questions[i].id = i
                                  /\ data.questions[i].topic = "Algebra"}

NextApp ==
    \/ HandleNotesChange("notes", NoteId)
    \/ HandleSummarize(NoteId)
    \/ SummaryDone(NoteId, "summary")
    \/ SummaryFailed(NoteId)
    \/ OpenSettings
    \/ CloseSettings
    \/ \E newProfile \in UserProfiles \ {DefaultProfile} : HandleSaveProfile(newProfile)
    \/ SettingsTimeout
    \/ \E text \in UserTexts : HandleSendMessage(text)
    \/ ToggleVoiceMode
    \/ ToggleListening
    \/ \E transcript \in UserTexts : RecognitionResult(transcript)
    \/ RecognitionEnd
    \/ \E timer \in timers : TimerSend(timer)
    \/ \E call \in calls : TutorReplied(call, "reply")
    \/ \E call \in calls : TutorFailed(call)
    \/ \E call \in calls : SpeechSettled(call)
    \/ \E id \in {"general", "g1"} : SetActiveSessionId(id)
    \/ \E name \in SessionNames : SubmitCreate("personal", name, now)
    \/ \E id \in SessionIds, newName \in SessionNames : HandleRenameSession(id, newName)
    \/ \E sessionId \in SessionIds : HandleDeleteSession(sessionId)
    \/ OpenQuiz
    \/ CloseQuiz
    \/ Crash
    \/ HandleStartQuiz
    \/ \E data \in AppQuizDatas : QuizGenerated(data)
    \/ QuizFailed("No data returned")
    \/ \E qId \in QuestionIdsOf(quizData) : HandleOptionSelect(qId, 1)
    \/ Submit_Enter
    \/ Submit_ForEach
    \/ Submit_WriteMastery
    \/ Submit_WriteWeak
    \/ Submit_WriteHistory(now)
    \/ Submit_Finish
    \/ OpenHistory
    \/ CloseHistory
    \/ ClearHistory(TRUE)

SpecApp == Init /\ [][NextApp]_vars

\* The setup screen with its subject <select> and focus-topic input, and the
\* quizzes of one question on Algebra.
NextTopic ==
    \/ HandleNotesChange("notes", NoteId)
    \/ OpenQuiz
    \/ CloseQuiz
    \/ Crash
    \/ \E s \in COMMON_SUBJECTS : SetSelectedSubject(s)
    \/ \E f \in FocusTopics : SetFocusTopic(f)
    \/ HandleStartQuiz
    \/ \E data \in SetupQuizDatas : QuizGenerated(data)
    \/ QuizFailed("No data returned")
    \/ \E qId \in QuestionIdsOf(quizData) : HandleOptionSelect(qId, 1)
    \/ Submit_Enter
    \/ Submit_ForEach
    \/ Submit_WriteMastery
    \/ Submit_WriteWeak
    \/ Submit_WriteHistory(now)
    \/ Submit_Finish
    \/ OpenHistory
    \/ CloseHistory

SpecTopic == Init /\ [][NextTopic]_vars

\* ChatInterface alone: typed and spoken sends, the tutor's answers, the
\* voice mode and the sessions of the side bar.
NextChat ==
    \/ \E text \in UserTexts : HandleSendMessage(text)
    \/ ToggleVoiceMode
    \/ ToggleListening
    \/ \E transcript \in UserTexts : RecognitionResult(transcript)
    \/ RecognitionEnd
    \/ \E timer \in timers : TimerSend(timer)
    \/ \E call \in calls, text \in TutorReplies : TutorReplied(call, text)
    \/ \E call \in calls : TutorFailed(call)
    \/ \E call \in calls : SpeechSettled(call)
    \/ \E id \in SessionIds : SetActiveSessionId(id)
    \/ \E type \in {"personal", "group"}, name \in SessionNames : SubmitCreate(type, name, now)
    \/ \E id \in SessionIds, newName \in SessionNames : HandleRenameSession(id, newName)
    \/ \E sessionId \in SessionIds : HandleDeleteSession(sessionId)
    \/ Crash

SpecChat == Init /\ [][NextChat]_vars

\* StudyMaterials alone: the notes, the files and their summaries.
NextMaterials ==
    \/ \E newText \in NoteTexts, newId \in NoteIds : HandleNotesChange(newText, newId)
    \/ \E content \in PdfContents : HandleFileUpload(content)
    \/ \E content \in PdfContents : ReaderOnload(content)
    \/ \E id \in PdfIds : RemovePdf(id)
    \/ \E id \in NoteIds \cup PdfIds : HandleSummarize(id)
    \/ \E id \in summarizing, summary \in Summaries : SummaryDone(id, summary)
    \/ \E id \in summarizing : SummaryFailed(id)
    \/ Crash

SpecMaterials == Init /\ [][NextMaterials]_vars

\* A summarizeMaterial call that is awaited resolves or rejects.
SummarySettles ==
    \E id \in summarizing :
        \/ \E summary \in Summaries : SummaryDone(id, summary)
        \/ SummaryFailed(id)

SpecMaterialsLive == SpecMaterials /\ WF_vars(SummarySettles)

\* A quiz the service can resolve to: two questions on Thermodynamics, then
\* one on Algebra.
ExampleQuiz ==
    [loaded |-> TRUE,
     title |-> "Quiz",
     questions |-> <<[id |-> 1, topic |-> "Thermodynamics", correctAnswerIndex |-> 1],
                     [id |-> 2, topic |-> "Thermodynamics", correctAnswerIndex |-> 1],
                     [id |-> 3, topic |-> "Algebra", correctAnswerIndex |-> 1]>>]

\* The overlay shows ExampleQuiz, generated on empty storage, no option
\* selected yet.
InitExample ==
    /\ lsMastery = NoItem
    /\ lsWeak = NoItem
    /\ lsHistory = NoItem
    /\ now = 1
    /\ showQuiz = TRUE
    /\ showHistory = FALSE
    /\ step = "quiz"
    /\ selectedSubject = "General / Any"
    /\ focusTopic = ""
    /\ availableWeakTopics = <<>>
    /\ materials = <<Note("n1", "notes", "")>>
    /\ reading = {}
    /\ summarizing = {}
    /\ lsProfile = NoItem
    /\ AppMounted
    /\ sends = 0
    /\ acts = 0
    /\ selectedMaterialIds = {"n1"}
    /\ error = ""
    /\ request = NoRequest
    /\ quizData = ExampleQuiz
    /\ answers = <<>>
    /\ submitted = FALSE
    /\ score = 0
    /\ history = <<>>
    /\ LocalsIdle
    /\ GhostReset
    /\ submits = 0
    /\ asked = 0
    /\ last = Quiet

\* The option clicks on ExampleQuiz and the steps of handleSubmit.
NextExample ==
    \/ \E qId \in {1, 2, 3}, optionIdx \in Options : HandleOptionSelect(qId, optionIdx)
    \/ Submit_Enter
    \/ Submit_ForEach
    \/ Submit_WriteMastery
    \/ Submit_WriteWeak
    \/ \E t \in {now, now + 1} : Submit_WriteHistory(t)
    \/ Submit_Finish
    \/ Submit_SetItemThrows
    \/ Crash

SpecExample == InitExample /\ [][NextExample]_vars

\* ------------------------------------------------------------------ claims
Max0(n) == IF n > 0 THEN n ELSE 0
IsPrefix(s, t) == Len(s) <= Len(t) /\ SubSeq(t, 1, Len(s)) = s

\* The outcomes of the quiz on screen, in question order.
Outcomes ==
    [i \in 1..Len(quizData.questions) |->
        [topic |-> quizData.questions[i].topic,
         isCorrect |-> IsCorrect(answers, quizData.questions[i])]]

\* The forEach of lines 101-117 as a whole, on the mastery object.
RECURSIVE MasteryBatch(_, _)
MasteryBatch(m, b) ==
    IF b = <<>> THEN m
    ELSE MasteryBatch(MasteryAfter(m, Head(b).topic, Head(b).isCorrect), Tail(b))

\* The counter the spec reads in a mastery object: 0 for an absent topic.
Counter(m, topic) == IF topic \in DOMAIN m THEN m[topic] ELSE Num(0)

\* The question the forEach is at, and its outcome.
ThisQuestion == quizData.questions[qi]
ThisCorrect == IsCorrect(answers, ThisQuestion)

\* C1 (as claimed): every counter of the persisted mastery map is an
\* integer >= 0, after any sequence of submissions from empty storage.
C1_CountersNonNegative ==
    \A topic \in DOMAIN Load(lsMastery) :
        /\ Load(lsMastery)[topic].kind = "number"
        /\ Load(lsMastery)[topic].n >= 0

\* C2 (as claimed): an iteration of the forEach on a correct outcome makes
\* the topic's counter its previous value plus 1, an absent topic counting
\* as 0, and leaves the topic out of the weak-topic set.
C2_CorrectIncrements ==
    [][(pc = "L101" /\ pc' # "idle" /\ ThisCorrect) =>
          /\ currentMastery'[ThisQuestion.topic]
                = Num(Counter(currentMastery, ThisQuestion.topic).n + 1)
          /\ ThisQuestion.topic \notin Range(weakTopicsSet')]_vars

\* C3 (as claimed): an iteration of the forEach on an incorrect outcome makes
\* the topic's counter max(0, previous - 1), an absent topic counting as 0,
\* and puts the topic in the weak-topic set.
C3_IncorrectDecrements ==
    [][(pc = "L101" /\ pc' # "idle" /\ ~ThisCorrect) =>
          /\ currentMastery'[ThisQuestion.topic]
                = Num(Max0(Counter(currentMastery, ThisQuestion.topic).n - 1))
          /\ ThisQuestion.topic \in Range(weakTopicsSet')]_vars

\* The last question of the quiz on screen that carries the topic.
LastIndexOf(topic) ==
    CHOOSE i \in 1..Len(quizData.questions) :
        /\ quizData.questions[i].topic = topic
        /\ \A j \in (i + 1)..Len(quizData.questions) : quizData.questions[j].topic # topic

QuizTopics == {quizData.questions[i].topic : i \in 1..Len(quizData.questions)}

\* C4: when a submission has made its three writes, a topic of the quiz is in
\* the persisted weak-topic list exactly if the last outcome for that topic,
\* in question order, was incorrect.
C4_WeakReflectsLastOutcome ==
    pc = "L143" =>
        \A topic \in QuizTopics :
            topic \in Range(Load(lsWeak)) <=> ~Outcomes[LastIndexOf(topic)].isCorrect

\* A submission has made its writes for a quiz whose two questions share a
\* topic that was weak before, the first answered wrongly, the last correctly.
C4_Witness ==
    /\ pc = "L143"
    /\ Len(quizData.questions) = 2
    /\ quizData.questions[1].topic = quizData.questions[2].topic
    /\ ~Outcomes[1].isCorrect /\ Outcomes[2].isCorrect
    /\ quizData.questions[1].topic \in Range(Load(pre.weak))
    /\ quizData.questions[1].topic \notin Range(Load(lsWeak))

\* C5: a handleSubmit that has made its last write leaves the persisted
\* history exactly one record longer than it found it, whatever the score.
C5_HistoryGrowsByOne ==
    pc = "L143" => Len(Load(lsHistory)) = Len(Load(pre.history)) + 1

\* A submission with no correct answer has appended to a history that was
\* not empty.
C5_Witness ==
    /\ pc = "L143"
    /\ Len(quizData.questions) > 0
    /\ correctCount = 0
    /\ Len(Load(pre.history)) = 1
    /\ Len(Load(lsHistory)) = 2

\* C6: a step that is not a confirmed clearHistory keeps the persisted
\* history as a prefix of the new one, and opening the history view leaves
\* the persisted history as it is.
C6_HistoryAppendOnly ==
    [][/\ ~(last'.ev = "confirm" /\ last'.at = "ok") =>
             IsPrefix(Load(lsHistory), Load(lsHistory'))
       /\ (~showHistory /\ showHistory') => lsHistory' = lsHistory]_vars

\* The history view is open on two records that it shows in another order
\* than the persisted one.
C6_Witness ==
    /\ showHistory
    /\ Len(Load(lsHistory)) = 2
    /\ history = SortByDateDesc(Load(lsHistory))
    /\ history # Load(lsHistory)

\* C7: a confirmed clearHistory leaves the persisted history empty and the
\* mastery map and the weak-topic list as they were; a declined one changes
\* nothing persisted.
C7_ClearHistoryFrame ==
    [][/\ (last'.ev = "confirm" /\ last'.at = "ok") =>
             /\ Load(lsHistory') = <<>>
             /\ ~lsHistory'.has
             /\ lsMastery' = lsMastery
             /\ lsWeak' = lsWeak
       /\ (last'.ev = "confirm" /\ last'.at = "cancel") =>
             UNCHANGED storage]_vars

\* The history was just cleared while the mastery map and the weak-topic
\* list hold entries.
C7_Witness ==
    /\ last.ev = "confirm" /\ last.at = "ok"
    /\ ~lsHistory.has
    /\ DOMAIN Load(lsMastery) # {}
    /\ Load(lsWeak) # <<>>

\* The persisted mastery map after the batch b is applied to storage holding m.
Replay(m, b) == JSONObject(MasteryBatch(m, b))

NetCorrect(b, topic) ==
    Cardinality({i \in 1..Len(b) : b[i].topic = topic /\ b[i].isCorrect})
      - Cardinality({i \in 1..Len(b) : b[i].topic = topic /\ ~b[i].isCorrect})
NetPositive(b) == \E i \in 1..Len(b) : NetCorrect(b, b[i].topic) > 0

C9_AppliedAtMostOnce ==
    applied <= 1 /\ appended <= 1

\* C9 (amended): at most one history record is appended for the quiz instance
\* on screen, and once it is appended the run is at its last line or the quiz
\* is marked submitted, which takes the submit button away.
C9_AppendedAtMostOnce ==
    /\ appended <= 1
    /\ appended = 1 => (pc = "L143" \/ (pc = "idle" /\ submitted /\ ~SubmitEnabled))

\* The quiz on screen is submitted, with one record appended and the mastery
\* update written twice.
C9_Witness ==
    /\ submitted
    /\ appended = 1
    /\ applied = 2

\* C10 (as claimed): after a crash inside the forEach, the persisted mastery
\* map reflects the outcomes processed before the crash.
C10_PartialMapPersisted ==
    [][(last'.ev = "crash" /\ last'.at = "L101" /\ last'.n > 0) =>
          Load(lsMastery') = JSONObject(currentMastery)]_vars

\* C10 (amended): after a crash inside the forEach, the persisted mastery map
\* and weak-topic list are what they were before the submission.
C10_CrashInLoopWritesNothing ==
    [][(last'.ev = "crash" /\ last'.at = "L101" /\ last'.n > 0) =>
          /\ lsMastery' = pre.mastery
          /\ lsWeak' = pre.weak
          /\ lsHistory' = pre.history]_vars

\* The page was lost inside the forEach after an outcome was processed, and
\* storage holds no mastery map.
C10_Witness ==
    /\ last.ev = "crash" /\ last.at = "L101" /\ last.n > 0
    /\ ~lsMastery.has

\* An item from which a load gets the empty structure, as C11 has it: absent,
\* or text that does not parse.
AbsentOrUnparseable(item) == ~item.has \/ ~item.json

\* C11 (as claimed): a load that finds its item absent or unparseable yields
\* the empty structure and the operation goes on: handleSubmit enters its
\* forEach with an empty map and an empty set and appends its record to an
\* empty list, the history view shows an empty list, the overlay has no weak
\* topics to suggest.
C11_LoadsDefaultToEmpty ==
    [][/\ submits' = submits + 1 =>
             /\ pc' \in {"L101", "L119"}
             /\ AbsentOrUnparseable(lsMastery) => currentMastery' = <<>>
             /\ AbsentOrUnparseable(lsWeak) => weakTopicsSet' = <<>>
       /\ (pc = "L141" /\ AbsentOrUnparseable(lsHistory)
              /\ last'.ev \notin {"crash", "throw"}) =>
             /\ pc' = "L143"
             /\ lsHistory' = Item(<<Result(now')>>)
       /\ (~showHistory /\ showHistory' /\ AbsentOrUnparseable(lsHistory)) =>
             history' = <<>>
       /\ (~showQuiz /\ showQuiz' /\ AbsentOrUnparseable(lsWeak)) =>
             availableWeakTopics' = <<>>]_vars

\* (Thermodynamics, correct), (Thermodynamics, incorrect), (Algebra, incorrect)
ExampleOutcomes ==
    <<[topic |-> "Thermodynamics", isCorrect |-> TRUE],
      [topic |-> "Thermodynamics", isCorrect |-> FALSE],
      [topic |-> "Algebra", isCorrect |-> FALSE]>>

\* C12: a submission with the outcomes (Thermodynamics, correct),
\* (Thermodynamics, incorrect), (Algebra, incorrect), in that order, that found
\* the mastery map and the weak-topic list empty, leaves the mastery map
\* {Thermodynamics: 0, Algebra: 0} and the weak topics {Thermodynamics, Algebra}.
C12_ExampleBatch ==
    (/\ pc = "L143"
     /\ Outcomes = ExampleOutcomes
     /\ Load(pre.mastery) = <<>>
     /\ Load(pre.weak) = <<>>) =>
        /\ Load(lsMastery) = [topic \in {"Thermodynamics", "Algebra"} |-> Num(0)]
        /\ Range(Load(lsWeak)) = {"Thermodynamics", "Algebra"}

\* The three outcomes were submitted on empty storage and all three writes
\* are made.
C12_Witness ==
    /\ pc = "L143"
    /\ Outcomes = ExampleOutcomes
    /\ ~pre.mastery.has /\ ~pre.weak.has
    /\ lsMastery.has /\ lsWeak.has /\ lsHistory.has

\* C14: when a submission has made its writes, the two items hold the whole
\* map and the whole set the handler worked on, and every topic that is not a
\* topic of the quiz has the mastery entry and the weak-topic membership the
\* submission found.
C14_OtherTopicsPreserved ==
    pc = "L143" =>
        /\ lsMastery = Item(JSONObject(currentMastery))
        /\ lsWeak = Item(weakTopicsSet)
        /\ DOMAIN Load(lsMastery) = DOMAIN Load(pre.mastery) \cup QuizTopics
        /\ \A topic \in DOMAIN Load(pre.mastery) \ QuizTopics :
              Load(lsMastery)[topic] = Load(pre.mastery)[topic]
        /\ Range(Load(lsWeak)) \ QuizTopics = Range(Load(pre.weak)) \ QuizTopics

\* A submission has made its writes on storage that held a counter and a
\* weak-topic entry for a topic the quiz does not have.
C14_Witness ==
    /\ pc = "L143"
    /\ \E topic \in DOMAIN Load(pre.mastery) \ QuizTopics :
          /\ topic \in Range(Load(pre.weak))
          /\ topic \in Range(Load(lsWeak))
          /\ Load(lsMastery)[topic] = Load(pre.mastery)[topic]
    /\ QuizTopics # {}

\* The questions of the quiz on screen whose selected option is the correct one.
CorrectlyAnswered ==
    {i \in 1..Len(quizData.questions) :
        /\ quizData.questions[i].id \in DOMAIN answers
        /\ answers[quizData.questions[i].id] = quizData.questions[i].correctAnswerIndex}

\* C15: the record a submission appends has for score the number of
\* questions whose selected option is correctAnswerIndex and for
\* totalQuestions the number of questions, and every record of the persisted
\* history has 0 <= score <= totalQuestions.
C15_ScoreCountsCorrectAnswers ==
    /\ pc = "L143" =>
          LET result == Load(lsHistory)[Len(Load(lsHistory))]
          IN /\ result.score = Cardinality(CorrectlyAnswered)
             /\ result.totalQuestions = Len(quizData.questions)
    /\ \A i \in 1..Len(Load(lsHistory)) :
          /\ 0 <= Load(lsHistory)[i].score
          /\ Load(lsHistory)[i].score <= Load(lsHistory)[i].totalQuestions

\* A submission of two questions, one answered correctly and one not, has
\* appended its record to a history that held one.
C15_Witness ==
    /\ pc = "L143"
    /\ Len(quizData.questions) = 2
    /\ Cardinality(CorrectlyAnswered) = 1
    /\ Len(Load(lsHistory)) = 2
    /\ Load(lsHistory)[2].score = 1
    /\ Load(lsHistory)[2].totalQuestions = 2

\* C16 (as claimed): the records of the persisted history have pairwise
\* distinct ids, after any sequence of submissions and clears.
C16_DistinctIds ==
    \A i, j \in 1..Len(Load(lsHistory)) :
        i # j => Load(lsHistory)[i].id # Load(lsHistory)[j].id

\* The forEach of lines 101-117 as a whole, on the weak-topic Set.
RECURSIVE WeakBatch(_, _)
WeakBatch(w, b) ==
    IF b = <<>> THEN w
    ELSE WeakBatch(WeakAfter(w, Head(b).topic, Head(b).isCorrect), Tail(b))

\* What the running handleSubmit writes, from what it found and the outcomes.
MasteryWritten == lsMastery = Item(Replay(Load(pre.mastery), Outcomes))
WeakWritten == lsWeak = Item(WeakBatch(Load(pre.weak), Outcomes))
HistoryWritten ==
    /\ lsHistory.has
    /\ Len(Load(lsHistory)) = Len(Load(pre.history)) + 1
    /\ IsPrefix(Load(pre.history), Load(lsHistory))
    /\ Load(lsHistory)[Len(Load(lsHistory))].title = quizData.title
    /\ Load(lsHistory)[Len(Load(lsHistory))].score = Cardinality(CorrectlyAnswered)

\* The three items at each place of handleSubmit: written in the order
\* mastery map, weak-topic list, history, the ones not yet written being what
\* the handler found.
WrittenInOrder ==
    /\ pc \in {"L101", "L119"} =>
          lsMastery = pre.mastery /\ lsWeak = pre.weak /\ lsHistory = pre.history
    /\ pc = "L120" =>
          MasteryWritten /\ lsWeak = pre.weak /\ lsHistory = pre.history
    /\ pc = "L141" =>
          MasteryWritten /\ WeakWritten /\ lsHistory = pre.history
    /\ pc = "L143" =>
          MasteryWritten /\ WeakWritten /\ HistoryWritten

\* C17: in every state of a submission the history holds the submission's
\* record only if the weak-topic list is written, and the weak-topic list is
\* written only if the mastery map is; a crash or a throwing write leaves
\* the three items as the handler had them at that place.
C17_WritesInOrder ==
    /\ []WrittenInOrder
    /\ [][last'.ev \in {"crash", "throw"} => UNCHANGED storage]_vars

\* The page was lost between lines 119 and 120 of a first submission: the
\* mastery map is written, the weak-topic list and the history are not.
C17_Witness ==
    /\ last.ev = "crash" /\ last.at = "L120"
    /\ lsMastery.has /\ DOMAIN Load(lsMastery) # {}
    /\ ~lsWeak.has
    /\ ~lsHistory.has

\* C18: a setItem that throws in handleSubmit ends the handler there: the
\* items written before it keep what was written, the others keep what the
\* handler found, the quiz is not marked submitted, the score is not set and
\* the quiz stays on screen.
C18_ThrowNotCaught ==
    [][last'.ev = "throw" =>
          /\ pc' = "idle"
          /\ UNCHANGED <<storage, applied, appended>>
          /\ last'.at = "L119" =>
                lsMastery' = pre.mastery /\ lsWeak' = pre.weak /\ lsHistory' = pre.history
          /\ last'.at = "L120" =>
                MasteryWritten /\ lsWeak' = pre.weak /\ lsHistory' = pre.history
          /\ last'.at = "L141" =>
                MasteryWritten /\ WeakWritten /\ lsHistory' = pre.history
          /\ ~submitted /\ ~submitted'
          /\ score' = score
          /\ showQuiz' /\ step' = "quiz" /\ quizData' = quizData /\ answers' = answers]_vars

\* The write of the history threw: the mastery map and the weak-topic list
\* are written, the history is not, the quiz is on screen, not submitted.
C18_Witness ==
    /\ last.ev = "throw" /\ last.at = "L141"
    /\ lsMastery.has /\ lsWeak.has
    /\ ~lsHistory.has
    /\ showQuiz /\ step = "quiz" /\ ~submitted /\ score = 0
    /\ Len(quizData.questions) > 0

\* The ids of the questions of the quiz on screen.
QuestionIdsOnScreen == {quizData.questions[i].id : i \in 1..Len(quizData.questions)}

\* C19: handleSubmit starts only on a loaded quiz that is not submitted and
\* in which every question has a selected option, as many answered ids as
\* questions; answers are recorded one at a time, for an id of a question of
\* the quiz, while the quiz is not submitted; and no line of handleSubmit
\* past its guard runs without a quiz.
C19_SubmitOnlyWhenAllAnswered ==
    [][/\ submits' = submits + 1 =>
             /\ quizData.loaded /\ step = "quiz" /\ ~submitted
             /\ Cardinality(DOMAIN answers) = Len(quizData.questions)
             /\ \A i \in 1..Len(quizData.questions) :
                   quizData.questions[i].id \in DOMAIN answers
       /\ DOMAIN answers' \subseteq {quizData'.questions[i].id :
                                        i \in 1..Len(quizData'.questions)}
       /\ (answers' # answers /\ answers' # <<>>) =>
             /\ ~submitted /\ quizData.loaded /\ quizData' = quizData
             /\ \E qId \in QuestionIdsOnScreen :
                   /\ DOMAIN answers' = DOMAIN answers \cup {qId}
                   /\ \A other \in DOMAIN answers \ {qId} : answers'[other] = answers[other]
       /\ pc' # "idle" => quizData'.loaded]_vars

\* handleSubmit has started on a quiz of two questions, both answered.
C19_Witness ==
    /\ pc = "L101" /\ qi = 1
    /\ quizData.loaded
    /\ Len(quizData.questions) = 2
    /\ DOMAIN answers = QuestionIdsOnScreen
    /\ Cardinality(DOMAIN answers) = 2

\* C20: the step is 'quiz' only with quizData set; a click on Start with no
\* material selected sets the error, stays on the setup screen and issues no
\* request; a request that is awaited ends either on the quiz screen, with the
\* quiz set and no error, or back on the setup screen with an error message
\* and no quiz, and a request whose materials have no content ends there.
C20_SetupToQuiz ==
    [][/\ step' = "quiz" => quizData'.loaded
       /\ (last'.ev = "click" /\ last'.at = "start" /\ selectedMaterialIds = {}) =>
             /\ error' = "Please select at least one study material."
             /\ step' = "setup"
             /\ ~request.sent /\ ~request'.sent
       /\ step' = "loading" <=> request'.sent
       /\ (step = "loading" /\ step' # "loading" /\ last'.ev # "crash") =>
             \/ step' = "quiz" /\ quizData'.loaded /\ error' = ""
                             /\ HasContent(request.materials)
             \/ step' = "setup" /\ error' # "" /\ ~quizData'.loaded]_vars

\* A request for materials without content was rejected: the setup screen
\* shows the message of line 163.
C20_Witness ==
    /\ showQuiz /\ step = "setup"
    /\ error = NoContentMessage
    /\ selectedMaterialIds # {}
    /\ ~HasContent(materials)
    /\ ~quizData.loaded

\* ---------------------------------------------------------------- C13
\* C13: no chat, summarization, speech, quiz-generation, profile or session
\* operation writes the persisted mastery map, weak-topic list or quiz
\* history.  The mastery map changes only in the step of handleSubmit at line
\* 119, the weak-topic list only in the one at line 120, the history only in
\* the one at line 141 and in a confirmed clearHistory; a step that changes
\* the materials, a summary, the profile, the settings, the chat, the
\* sessions, the speech input, a pending timer, an awaited call or the
\* awaited quiz generation leaves the three items as they are.
C13_OnlyQuizWritesQuizStorage ==
    [][/\ lsMastery' # lsMastery => pc = "L119" /\ pc' = "L120"
       /\ lsWeak' # lsWeak => pc = "L120" /\ pc' = "L141"
       /\ lsHistory' # lsHistory =>
             \/ pc = "L141" /\ pc' = "L143"
             \/ pc = "idle" /\ showHistory /\ last'.ev = "confirm" /\ last'.at = "ok"
       /\ (library' # library \/ elsewhere' # elsewhere \/ request' # request) =>
             UNCHANGED storage]_vars

\* The quiz was submitted and its results are on screen, the three items are
\* stored; the tutor's reply to a message has arrived in the chat and the
\* notes have their summary.
C13_Witness ==
    /\ showQuiz /\ submitted
    /\ lsMastery.has /\ lsWeak.has /\ lsHistory.has
    /\ calls = {}
    /\ MessagesOf(messagesMap, "general") =
          Append(Append(DefaultMessages["general"], Message("user", "hi")),
                 Message("model", "reply"))
    /\ Len(materials) = 1 /\ materials[1].summary = "summary"

\* ---------------------------------------------------------------- C21
\* C21: the topic of the record a submission appends to the history is the
\* focus topic when that is not empty, otherwise the selected subject when
\* that is not 'General / Any', otherwise 'General'; no record of the history
\* has an empty topic.
C21_TopicOfRecord ==
    /\ pc = "L143" =>
          LET record == Load(lsHistory)[Len(Load(lsHistory))]
          IN /\ focusTopic # "" => record.topic = focusTopic
             /\ (focusTopic = "" /\ selectedSubject # "General / Any") =>
                   record.topic = selectedSubject
             /\ (focusTopic = "" /\ selectedSubject = "General / Any") =>
                   record.topic = "General"
    /\ \A i \in 1..Len(Load(lsHistory)) : Load(lsHistory)[i].topic # ""

\* Two submissions: the first with the subject 'Physics' and a focus topic of
\* one blank, whose record has the blank for its topic; the second with
\* neither, whose record has 'General'.
C21_Witness ==
    /\ pc = "L143"
    /\ focusTopic = "" /\ selectedSubject = "General / Any"
    /\ Len(Load(lsHistory)) = 2
    /\ Load(lsHistory)[1].topic = " "
    /\ Load(lsHistory)[2].topic = "General"

\* ---------------------------------------------------------------- C22
\* The runs of handleSendMessage that await sendMessageToTutor.
TutorRequests == {call \in calls : call.stage = "tutor"}

\* C22 (as claimed): at most one tutor request is in flight at any time, for
\* typed sends and for sends a speech-recognition result triggers.
C22_AtMostOneRequest == Cardinality(TutorRequests) <= 1

\* ---------------------------------------------------------------- C23
\* C23 (as claimed): a send that is accepted appends its user message to the
\* session that is active when the send starts, and the model message that
\* answers it (the reply or the apology) goes to that same session, also
\* when the user has switched sessions in between.
C23_SendGoesToActiveSession ==
    [][sends' # sends =>
          /\ \E text \in UserTexts :
                messagesMap' = AppendMessage(messagesMap, activeSessionId,
                                             Message("user", text))
          /\ \A call \in calls' \ calls : call.session = activeSessionId]_vars

\* ---------------------------------------------------------------- C24
\* C24: after any sequence of creations, renamings and deletions of sessions
\* from the default sessions, the session 'general' exists and
\* activeSessionId is the id of a session that exists.
C24_ActiveSessionExists ==
    /\ "general" \in SessionIds
    /\ activeSessionId \in SessionIds

\* The microphone was clicked in session 'g1', which has been deleted since:
\* 'general' is the active session.
C24_Witness ==
    /\ recognition.on /\ recognition.session = "g1"
    /\ "g1" \notin SessionIds
    /\ activeSessionId = "general"

\* ---------------------------------------------------------------- C25
\* C25 (as claimed): the message map holds message lists of existing
\* sessions only, also after a reply for a deleted session has arrived.
C25_MessagesOfExistingSessions == DOMAIN messagesMap \subseteq SessionIds

\* ---------------------------------------------------------------- C26
\* The materials of type 'text'.
TextMaterials == SelectSeq(materials, LAMBDA m : m.type = "text")

\* C26: after any sequence of note edits, file uploads and file removals the
\* materials hold at most one material of type 'text', and a step from a
\* list with a text material to a list with one keeps its id.
C26_OneNoteStableId ==
    /\ [](Len(TextMaterials) <= 1)
    /\ [][(TextMaterials # <<>> /\ TextMaterials' # <<>>) =>
             TextMaterials'[1].id = TextMaterials[1].id]_vars

\* Notes were written and summarized, a file was uploaded, and the notes
\* were emptied: the note is behind the file, empty, with its summary.
C26_Witness ==
    /\ Len(materials) = 2
    /\ materials[1].type = "pdf"
    /\ materials[2].type = "text"
    /\ materials[2].content = "" /\ materials[2].summary = "summary"

\* ---------------------------------------------------------------- C27
\* The material with this id shows "Thinking...".
IsSummarizing(id) ==
    \E i \in 1..Len(materials) : materials[i].id = id /\ materials[i].isSummarizing

\* The step settles the summarizeMaterial call for id.
Settled(id) == id \in summarizing /\ id \notin summarizing' /\ last'.ev # "crash"

\* C27: the isSummarizing flag a summarization sets is cleared eventually,
\* whether the call resolves or rejects.  The step in which the call settles
\* clears the flag of the material, replaces its summary when the call
\* resolved and keeps it when the call rejected, and changes no other
\* material, whatever was edited or removed while the call was awaited.
C27_SummarizationSettles ==
    /\ \A id \in NoteIds \cup PdfIds : IsSummarizing(id) ~> ~IsSummarizing(id)
    /\ [][\A id \in NoteIds \cup PdfIds : Settled(id) =>
             /\ Len(materials') = Len(materials)
             /\ \A i \in 1..Len(materials) :
                   IF materials[i].id = id
                   THEN /\ ~materials'[i].isSummarizing
                        /\ IF last'.ev = "alert"
                           THEN materials'[i].summary = materials[i].summary
                           ELSE materials'[i].summary \in Summaries
                        /\ materials'[i].id = id
                        /\ materials'[i].type = materials[i].type
                        /\ materials'[i].content = materials[i].content
                   ELSE materials'[i] = materials[i]]_vars

\* The notes have a summary and a second one was asked for; the notes were
\* emptied while it was awaited, and the call has just rejected: the note is
\* empty, keeps the first summary and is not being summarized.
C27_Witness ==
    /\ last.ev = "alert"
    /\ summarizing = {}
    /\ Len(materials) = 1
    /\ materials[1].type = "text" /\ materials[1].content = ""
    /\ materials[1].summary = "summary" /\ ~materials[1].isSummarizing

====
